---- MODULE Spec2Model ----
(***************************************************************************)
(* Model of the preview web service (src/src/main.rs): the HTTP handler    *)
(* generate_preview, the rate-limit gate on PLAYERS, the blocking pool the *)
(* handler submits render jobs to, and the CLIENT mutex that serialises    *)
(* the jobs on the one Client (the Renderer).                              *)
(*                                                                         *)
(* A handler is one async task; it is cut into steps where it suspends     *)
(* (the outbound fetch, the wait for its blocking task) and where it       *)
(* touches shared state (the two reads of the clock under the PLAYERS      *)
(* guard, the submission to the pool). A render job is the closure given   *)
(* to spawn_blocking; it runs on one of the blocking-pool threads and is   *)
(* cut where it leaves the pool's queue, at the lock acquisition and at    *)
(* the two calls it makes on the Client.                                   *)
(*                                                                         *)
(* The contents of the query are followed apart from the scheduling, for   *)
(* one request: from the deserialised RenderParams through the merge of    *)
(* the player's profile to the values Client::render draws with.           *)
(***************************************************************************)
EXTENDS Integers, Sequences, FiniteSets

\* ------------------------------------------------------------------ bounds

\* number of HTTP requests in a run of the whole service
NumReq == 2
\* number of HTTP requests in a run of the gate alone and in a burst of
\* requests: more than there are worker threads and pool threads
BurstReq == 3
\* last instant of the clock, in milliseconds
MaxClock == 501
\* how many times the graphics library may invoke the screenshot callback
MaxCallbacks == 2

\* --------------------------------------------------------------- constants

\* Duration::from_millis(500), the debounce window of the gate
Window == 500
\* max_blocking_threads(2)
MaxBlockingThreads == 2
\* Duration::from_secs(60 * 60 * 60), in milliseconds: the age of the
\* timestamp PLAYERS starts with
InitialAge == 60 * 60 * 60 * 1000

\* the requests, numbered in the order they arrive; a run has the first
\* NumReq or the first BurstReq of them, the others are absent
Reqs == 1..BurstReq
Threads == 1..MaxBlockingThreads
\* the thread that runs main(), Client::new and Client::run
MainThread == 0
\* the clock advances by the window, or by a millisecond more
TickSteps == {Window, Window + 1}
NoTime == 0 - 1

\* The queries a request can carry, by what the handler's control flow reads:
\* has_params: the query deserialises into RenderParams (skin_name is there);
\* api: use_player_api is Some(true); has_name: player_name is Some.
NoQuery == [has_params |-> FALSE, api |-> FALSE, has_name |-> FALSE]
Queries ==
    {NoQuery} \cup
    {[has_params |-> TRUE, api |-> a, has_name |-> n] : a \in BOOLEAN, n \in BOOLEAN}

VARIABLES
    clock,          \* std::time::Instant::now(), ms since the server started
    players,        \* the Instant stored in PLAYERS, once it is initialised
    playersHolder,  \* the handler holding the PLAYERS guard, 0 if none
    pc,             \* where each handler is
    req,            \* the query of each request
    resp,           \* the response of each request
    gated,          \* the handler has read the timestamp in PLAYERS
    fetched,        \* the handler has issued the outbound profile request
    chan,           \* the oneshot channel of each request
    sends,          \* number of values sent on each oneshot channel
    join,           \* the JoinHandle of each request's blocking task
    bqueue,         \* the queue of the blocking pool
    tpc,            \* where each blocking-pool thread is
    tjob,           \* the job each blocking-pool thread runs, 0 if none
    clientHolder,   \* the thread holding the CLIENT guard, 0 if none
    clientWaiters,  \* the threads waiting for CLIENT, oldest first
    clientPresent,  \* CLIENT holds Some(ClientWrapper)
    accessors,      \* the threads that have touched the Client
    pending,        \* the submitted jobs not yet finished, oldest submission first
    afterFail,      \* the job was submitted after some job had failed
    trace,          \* whether the gate attempts are recorded
    attempts,       \* the gate attempts so far, in the order of their comparison
    query,          \* the RenderParams of one request as deserialised
    params,         \* `params` of that request in generate_preview, then in render
    upstream,       \* what the profile request of that request came to
    desc,           \* what Client::render draws that request with
    ppc,            \* how far the parameters of that request have come
    steps           \* what the job of that request has done, in order

vars == <<clock, players, playersHolder, pc, req, resp, gated, fetched, chan,
          sends, join, bqueue, tpc, tjob, clientHolder, clientWaiters,
          clientPresent, accessors, pending, afterFail, trace, attempts,
          query, params, upstream, desc, ppc, steps>>

\* the shared state of the service and its handlers and pool threads
serviceVars == <<clock, players, playersHolder, pc, req, resp, gated, fetched,
                 chan, sends, join, bqueue, tpc, tjob, clientHolder,
                 clientWaiters, clientPresent, accessors, pending, afterFail,
                 trace, attempts>>
\* the parameters of one request on their way to the drawing
descVars == <<query, params, upstream, desc, ppc, steps>>

gateVars == <<players, playersHolder, gated, attempts>>
poolVars == <<bqueue, tpc, tjob, clientHolder, clientWaiters, clientPresent,
              accessors, pending, afterFail>>
chanVars == <<chan, sends, join>>

\* ------------------------------------------------- the request parameters

\* An f32 is a number in units of 1/Scale (0.0005), or NaN, or an infinity.
Scale == 2000
Num(n) == [k |-> "num", v |-> n]
NaN == [k |-> "nan", v |-> 0]
PosInf == [k |-> "inf", v |-> 1]
NegInf == [k |-> "inf", v |-> 0 - 1]

\* f32::is_nan, f32::is_infinite
IsNan(f) == f.k = "nan"
IsInfinite(f) == f.k = "inf"

\* Option<T>: None, Some(x)
None == <<>>
Some(x) == <<x>>
IsSome(o) == Len(o) > 0
\* Option::unwrap_or
UnwrapOr(o, d) == IF IsSome(o) THEN o[1] ELSE d
Opt(S) == {None} \cup {Some(x) : x \in S}

\* The f32 values a query is tried with: the non-finite ones, and around
\* every limit of Client::render (0, 0.001, 1, 20, 10000, 300000 and their
\* negatives) the limit itself and a value on either side of it.
FloatSamples ==
    {NaN, PosInf, NegInf} \cup
    {Num(n) : n \in {0 - 600000001, 0 - 20000001, 0 - 20000000, 0 - 2001,
                     0 - 2000, 0 - 2, 0 - 1, 0, 1, 2, 1000, 2000, 2001, 40000,
                     40001, 20000000, 20000001, 600000000, 600000001}}

\* i32 values for body and feet: single bytes, all bits, the alpha byte
\* alone, and the ends of i32
MinI32 == 0 - 2147483647 - 1
MaxI32 == 2147483647
PackedSamples ==
    {0, 128, 255, 65280, 16711680, 16777215, 0 - 1, 0 - 16777216, MinI32, MaxI32}

\* u64 values for time, in units of TimeUnit milliseconds
TimeUnit == 1000
TimeSamples == {0, 1, 31536000 - 1, 31536000, 31536000 + 1, 2000000000}

MapSamples == {"ctf1", "CTF1", "Multeasymap"}
EyeSamples == {"normal", "Angry", "PAIN", "happy", "surprised", "blink", "sleepy"}
WeaponSamples == {"gun", "Shotgun", "GRENADE", "laser", "hammer", "sword"}
\* EmoticonType::iter(), by the names of the variants (three of them)
EmoticonNames == <<"OOP", "HEARTS", "ZZZ">>
EmoticonSamples == {"oop", "Hearts", "ZZZ", "grin"}

\* str::to_lowercase on the strings above
ToLower(str) ==
    CASE str = "CTF1" -> "ctf1"
      [] str = "Angry" -> "angry"
      [] str = "PAIN" -> "pain"
      [] str = "Shotgun" -> "shotgun"
      [] str = "GRENADE" -> "grenade"
      [] str = "OOP" -> "oop"
      [] str = "HEARTS" -> "hearts"
      [] str = "Hearts" -> "hearts"
      [] str = "ZZZ" -> "zzz"
      [] OTHER -> str

\* RenderParams of the query `skin_name=default`: every optional field None
DefaultParams ==
    [skin_name |-> "default", player_name |-> None, zoom |-> None, x |-> None,
     y |-> None, body |-> None, feet |-> None, dir_x |-> None, dir_y |-> None,
     eyes |-> None, weapon |-> None, emoticon |-> None, used_air_jump |-> None,
     in_air |-> None, hook_x |-> None, hook_y |-> None, time |-> None,
     map_name |-> None, use_player_api |-> None]

\* The queries the parameters are followed for. The fields that Client::render
\* reads together vary together: the camera with the map, the two components
\* of the direction, the two of the hook, the looks, and the colours with
\* what the player api needs.
CameraInputs ==
    {[DefaultParams EXCEPT !.x = a, !.y = b, !.map_name = m] :
        a \in Opt(FloatSamples), b \in Opt(FloatSamples), m \in Opt(MapSamples)}
ZoomTimeInputs ==
    {[DefaultParams EXCEPT !.zoom = z, !.time = t] :
        z \in Opt(FloatSamples), t \in Opt(TimeSamples)}
DirInputs ==
    {[DefaultParams EXCEPT !.dir_x = a, !.dir_y = b] :
        a \in Opt(FloatSamples), b \in Opt(FloatSamples)}
HookInputs ==
    {[DefaultParams EXCEPT !.hook_x = a, !.hook_y = b] :
        a \in Opt(FloatSamples), b \in Opt(FloatSamples)}
LookInputs ==
    {[DefaultParams EXCEPT !.eyes = e, !.weapon = w, !.emoticon = m,
                           !.in_air = a, !.used_air_jump = a] :
        e \in Opt(EyeSamples), w \in Opt(WeaponSamples),
        m \in Opt(EmoticonSamples), a \in Opt(BOOLEAN)}
ColourInputs ==
    {[DefaultParams EXCEPT !.body = b, !.feet = f, !.use_player_api = u,
                           !.player_name = n, !.zoom = z] :
        b \in Opt(PackedSamples), f \in Opt(PackedSamples), u \in Opt(BOOLEAN),
        n \in Opt({"nameless tee"}), z \in Opt({Num(2000)})}
\* a skin_name that is not a resource key
BadSkinName == "no such skin: <?>"
SkinNameSamples == {"default", "pinky", BadSkinName}
\* the sample names that the resource-key grammar accepts
KeyNames == {"default", "pinky"}
SkinInputs ==
    {[DefaultParams EXCEPT !.skin_name = n, !.use_player_api = u,
                           !.player_name = pn, !.body = b] :
        n \in SkinNameSamples, u \in Opt({TRUE}),
        pn \in Opt({"nameless tee"}), b \in Opt({65280})}
Inputs ==
    CameraInputs \cup ZoomTimeInputs \cup DirInputs \cup HookInputs
        \cup LookInputs \cup ColourInputs \cup SkinInputs

\* struct Skin, what the profile parses into
Skins ==
    [name : {"default", "pinky"}, color_body : Opt({0, 65280}),
     color_feet : Opt({0, 255})]
NoSkin == [name |-> "", color_body |-> None, color_feet |-> None]
\* How the profile request can end: send() fails, or the text does not
\* parse as a Skin, or it does.
NoFetch == [status |-> "none", skin |-> NoSkin]
FetchResults ==
    {[status |-> st, skin |-> NoSkin] : st \in {"net_err", "parse_err"}}
        \cup {[status |-> "ok", skin |-> sk] : sk \in Skins}

\* ------------------------------------------------------------------- Init

\* The state of the service when axum starts serving: Client::new and
\* Client::run have run on the main thread and CLIENT holds the Client.
\* PLAYERS is a LazyLock and is not initialised yet; `players` is read only
\* once it is.
Started ==
    /\ clock = 0
    /\ players = 0 - InitialAge
    /\ playersHolder = 0
    /\ req = [h \in Reqs |-> NoQuery]
    /\ resp = [h \in Reqs |-> "none"]
    /\ gated = [h \in Reqs |-> FALSE]
    /\ fetched = [h \in Reqs |-> FALSE]
    /\ chan = [h \in Reqs |-> "none"]
    /\ sends = [h \in Reqs |-> 0]
    /\ join = [h \in Reqs |-> "none"]
    /\ bqueue = <<>>
    /\ tpc = [t \in Threads |-> "idle"]
    /\ tjob = [t \in Threads |-> 0]
    /\ clientHolder = 0
    /\ clientWaiters = <<>>
    /\ clientPresent = TRUE
    /\ accessors = {MainThread}
    /\ pending = <<>>
    /\ afterFail = [h \in Reqs |-> FALSE]
    /\ attempts = <<>>

\* --------------------------------------------------------------- the clock

\* Time passes. Only the gate reads the clock, so the clock is left alone
\* once no handler can reach the gate any more.
Tick ==
    /\ UNCHANGED descVars
    /\ \E h \in Reqs : pc[h] \in {"new", "gate", "gate_set"}
    /\ \E d \in TickSteps :
        /\ clock + d <= MaxClock
        /\ clock' = clock + d
    /\ UNCHANGED <<pc, req, resp, fetched, trace>>
    /\ UNCHANGED gateVars
    /\ UNCHANGED poolVars
    /\ UNCHANGED chanVars

\* ------------------------------------------------------------ the handler

\* params.use_player_api.is_some_and(|b| b)
UsePlayerApi(q) == q.api

\* The Instant in PLAYERS as the handler that locks it finds it: the first
\* access runs the LazyLock's initialiser, Instant::now() minus 60 hours.
PlayersValue ==
    IF \E h \in Reqs : gated[h] THEN players ELSE clock - InitialAge

\* Instant::now().duration_since(*now) > Duration::from_millis(500)
CanUpdate(now, last) == now - last > Window

\* a gate that restarts its window at every attempt
TimestampOnRejectNow(last, now) == now

\* the timestamp in PLAYERS after a rejected attempt: the else branch
\* returns without a store
TimestampOnReject(last, now) == last

\* a gate whose guard is released before the timestamp is stored
GuardAfterTestNone(h) == 0

\* the holder of PLAYERS between the comparison and the store: `g` lives on
GuardAfterTest(h) == h

\* a rejection that falls through to the render instead of returning
RejectedPcFallsThrough == "submit"

\* where the handler goes when the gate rejects: `return "Rate limited"`
RejectedPc == "done"

\* a guard that outlives the block and is held across the fetch
GuardKept(h) == h

\* the holder of PLAYERS once the block of `can_update` ends: `g` is dropped
GuardAtBlockEnd(h) == 0

\* `can_update && params.player_name.is_some()`
WantsFetch(q) == q.has_name

\* the job's render or screenshot capture failed
Failed(h) == chan[h] \in {"err", "closed"} \/ join[h] = "panic"

\* oneshot::channel() and tokio::task::spawn_blocking(..) by handler h: the
\* job joins the queue of the blocking pool and the handler awaits it.
Spawn(h) ==
    /\ chan' = [chan EXCEPT ![h] = "empty"]
    /\ join' = [join EXCEPT ![h] = "pending"]
    /\ bqueue' = Append(bqueue, h)
    /\ pending' = Append(pending, h)
    /\ afterFail' = [afterFail EXCEPT ![h] = \E g \in Reqs : Failed(g)]
    /\ UNCHANGED <<sends, tpc, tjob, clientHolder, clientWaiters, clientPresent,
                   accessors>>

\* The request arrives and generate_preview runs up to its first lock or
\* await: a query that does not parse is answered at once, a request for
\* the player api goes to the gate, any other submits its job. Requests are
\* numbered in the order they arrive.
Arrive(h) ==
    /\ UNCHANGED descVars
    /\ pc[h] = "new"
    /\ \A g \in Reqs : g < h => pc[g] # "new"
    /\ \E q \in Queries :
        /\ req' = [req EXCEPT ![h] = q]
        /\ IF ~q.has_params
           THEN /\ resp' = [resp EXCEPT ![h] = "missing"]
                /\ pc' = [pc EXCEPT ![h] = "done"]
                /\ UNCHANGED poolVars
                /\ UNCHANGED chanVars
           ELSE IF UsePlayerApi(q)
           THEN /\ resp' = resp
                /\ pc' = [pc EXCEPT ![h] = "gate"]
                /\ UNCHANGED poolVars
                /\ UNCHANGED chanVars
           ELSE /\ resp' = resp
                /\ pc' = [pc EXCEPT ![h] = "await_join"]
                /\ Spawn(h)
    /\ UNCHANGED <<clock, fetched, trace>>
    /\ UNCHANGED gateVars

\* PLAYERS.lock() and the comparison; on rejection the handler returns and
\* the guard is dropped by the return.
GateTest(h) ==
    /\ UNCHANGED descVars
    /\ pc[h] = "gate"
    /\ playersHolder = 0
    /\ gated' = [gated EXCEPT ![h] = TRUE]
    /\ players' = IF CanUpdate(clock, PlayersValue) THEN PlayersValue
                  ELSE TimestampOnReject(PlayersValue, clock)
    /\ LET can_update == CanUpdate(clock, PlayersValue) IN
        /\ attempts' = IF trace
                       THEN Append(attempts, [h |-> h, at |-> clock,
                                              pass |-> can_update, set |-> NoTime])
                       ELSE attempts
        /\ IF can_update
           THEN /\ playersHolder' = GuardAfterTest(h)
                /\ pc' = [pc EXCEPT ![h] = "gate_set"]
                /\ resp' = resp
           ELSE /\ playersHolder' = 0
                /\ pc' = [pc EXCEPT ![h] = RejectedPc]
                /\ resp' = [resp EXCEPT ![h] = "rate_limited"]
    /\ UNCHANGED <<clock, req, fetched, trace>>
    /\ UNCHANGED poolVars
    /\ UNCHANGED chanVars

\* `*now = Instant::now()`, a second reading of the clock, and the end of
\* the block.
GateSet(h) ==
    /\ UNCHANGED descVars
    /\ pc[h] = "gate_set"
    /\ players' = clock
    /\ attempts' = IF trace
                   THEN [attempts EXCEPT ![Len(attempts)].set = clock]
                   ELSE attempts
    /\ playersHolder' = GuardAtBlockEnd(h)
    /\ pc' = [pc EXCEPT ![h] = IF WantsFetch(req[h]) THEN "fetch" ELSE "submit"]
    /\ UNCHANGED <<clock, gated, req, resp, fetched, trace>>
    /\ UNCHANGED poolVars
    /\ UNCHANGED chanVars

\* HTTP.get(...).send().await, text().await and serde_json::from_str. What
\* the profile overwrites in params (skin_name, body, feet) is not read by
\* the control flow and is not part of `req`.
Fetch(h) ==
    /\ UNCHANGED descVars
    /\ pc[h] = "fetch"
    /\ fetched' = [fetched EXCEPT ![h] = TRUE]
    /\ pc' = [pc EXCEPT ![h] = "submit"]
    /\ UNCHANGED <<clock, req, resp, trace>>
    /\ UNCHANGED gateVars
    /\ UNCHANGED poolVars
    /\ UNCHANGED chanVars

\* the handler resumes after the gate or the fetch and submits its job
Submit(h) ==
    /\ UNCHANGED descVars
    /\ pc[h] = "submit"
    /\ Spawn(h)
    /\ pc' = [pc EXCEPT ![h] = "await_join"]
    /\ UNCHANGED <<clock, req, resp, fetched, trace>>
    /\ UNCHANGED gateVars

\* The handler resumes when its blocking task has ended.
\* `.await.unwrap()` on the JoinHandle: a panic of the job is a JoinError and
\* unwrap panics the handler task, which answers nothing.
\* `receiver.await.unwrap().unwrap()`: the job has ended, so the channel is
\* ready and the handler does not suspend again; the first unwrap panics on
\* a closed channel, the second on an Err; otherwise the bytes are streamed
\* as image/png.
Respond(h) ==
    /\ UNCHANGED descVars
    /\ pc[h] = "await_join"
    /\ join[h] \in {"ok", "panic"}
    /\ join[h] = "ok" => chan[h] \in {"ok", "err", "closed"}
    /\ resp' = [resp EXCEPT ![h] =
                  IF join[h] = "ok" /\ chan[h] = "ok" THEN "png" ELSE "panic"]
    /\ pc' = [pc EXCEPT ![h] = "done"]
    /\ UNCHANGED <<clock, req, fetched, trace>>
    /\ UNCHANGED gateVars
    /\ UNCHANGED poolVars
    /\ UNCHANGED chanVars

\* a handler that keeps its worker thread while its job is queued or runs
SuspendsOnFetchOnly(p) == p = "fetch"

\* The handler is parked on an `.await` and has given its async worker thread
\* back to the runtime: on the outbound fetch, and on the JoinHandle of its
\* blocking task and the receiver.
Suspends(p) == p \in {"fetch", "await_join"}

\* handler h is being polled: it occupies one of the async worker threads
OnWorker(h) ==
    pc[h] \notin {"absent", "new", "done", "gone"} /\ ~Suspends(pc[h])

\* a runtime that cancels the queued job of a dropped JoinHandle
JobsWithout(q, h) == SelectSeq(q, LAMBDA x : x # h)

\* the queue of the blocking pool after the JoinHandle of job h is dropped:
\* the task is detached, not cancelled
JobsAfterDrop(q, h) == q

\* The caller disconnects and the handler's future is dropped where it is
\* suspended: on the outbound fetch, or on its blocking task or the receiver.
\* The JoinHandle and the receiving end of the channel are dropped with it;
\* a value already sent is dropped with the receiver.
Abandon(h) ==
    /\ UNCHANGED descVars
    /\ pc[h] \in {"fetch", "await_join"}
    /\ pc' = [pc EXCEPT ![h] = "gone"]
    /\ chan' = [chan EXCEPT ![h] = IF chan[h] = "none" THEN "none" ELSE "rx_dropped"]
    /\ bqueue' = JobsAfterDrop(bqueue, h)
    /\ UNCHANGED <<clock, req, resp, fetched, trace, sends, join, tpc, tjob,
                   clientHolder, clientWaiters, clientPresent, accessors,
                   pending, afterFail>>
    /\ UNCHANGED gateVars

\* ------------------------------------------------------- the blocking pool

\* a pool that serves its queue from the back
NextJobNewest(q) == q[Len(q)]

\* the job an idle pool thread takes: the pool's queue is served from the
\* front
NextJob(q) == Head(q)

\* a lock that excludes nobody
ClientFreeAlways == TRUE

\* CLIENT.blocking_lock() finds the mutex free
ClientFree == clientHolder = 0

\* a mutex whose guard is lost when its holder panics
ReleasesOnReturnOnly(out) == out \in {"ok", "png_err"}

\* whether the job's guard on CLIENT is dropped when the closure ends the
\* way `out` says: by returning, or by unwinding from a panic
ReleasesClient(out) == TRUE

\* a closure that waits for its skin before it locks CLIENT
HolderInWaitNone(t) == 0

\* the holder of CLIENT while thread t, which obtained the guard, is in
\* wait_skin_loaded: the guard `client` lives to the end of the closure
HolderInWait(t) == t

\* a mutex that wakes nobody when its guard is dropped
NextHolderNone(ws) == 0

\* the thread the tokio Mutex passes to when its guard is dropped: the
\* oldest of the waiters ws, nobody (0) if there is none
NextHolder(ws) == IF ws = <<>> THEN 0 ELSE Head(ws)

\* sender.send(png) on a channel in state c: the value is stored for the
\* receiver; if the receiver is gone, send returns the value in an Err
Send(c, png) == IF c = "rx_dropped" THEN c ELSE png

\* Screenshot::on_screenshot on the callback state s = [sender, chan, sends]:
\* the sender is taken out of the RefCell and used once; `let _ =` drops
\* what send returns
OnScreenshot(s, png) ==
    IF s.sender
    THEN [sender |-> FALSE, chan |-> Send(s.chan, png), sends |-> s.sends + 1]
    ELSE s

\* the callback invoked n times with the same result
RECURSIVE Callbacks(_, _, _)
Callbacks(s, png, n) ==
    IF n = 0 THEN s ELSE Callbacks(OnScreenshot(s, png), png, n - 1)

\* How Client::render can end: the screenshot is delivered as Ok(png) or as
\* Err, or do_screenshot(..).unwrap() or wait_idle().unwrap() panics.
RenderOutcomes == {"ok", "png_err", "shot_panic", "idle_panic"}
Panics(out) == out \in {"shot_panic", "idle_panic"}
\* each outcome with the number of times the callback is invoked
RenderEnds ==
    {<<out, n>> : out \in {"ok", "png_err"}, n \in 1..MaxCallbacks}
        \cup {<<out, 0>> : out \in {"shot_panic", "idle_panic"}}

\* An idle pool thread takes a job from the queue. Idle threads are
\* interchangeable; the one with the lowest number takes the job.
Dequeue(t) ==
    /\ UNCHANGED descVars
    /\ tpc[t] = "idle"
    /\ \A u \in Threads : u < t => tpc[u] # "idle"
    /\ bqueue # <<>>
    /\ LET j == NextJob(bqueue) IN
        /\ tjob' = [tjob EXCEPT ![t] = j]
        /\ bqueue' = SelectSeq(bqueue, LAMBDA x : x # j)
    /\ tpc' = [tpc EXCEPT ![t] = "lock"]
    /\ UNCHANGED <<clock, pc, req, resp, fetched, trace, clientHolder,
                   clientWaiters, clientPresent, accessors, pending, afterFail>>
    /\ UNCHANGED gateVars
    /\ UNCHANGED chanVars

\* CLIENT.blocking_lock(): the guard at once if the mutex is free, else the
\* thread joins the mutex's queue of waiters
LockClient(t) ==
    /\ UNCHANGED descVars
    /\ tpc[t] = "lock"
    /\ IF ClientFree
       THEN /\ clientHolder' = HolderInWait(t)
            /\ tpc' = [tpc EXCEPT ![t] = "wait_skin"]
            /\ clientWaiters' = clientWaiters
       ELSE /\ clientWaiters' = Append(clientWaiters, t)
            /\ tpc' = [tpc EXCEPT ![t] = "blocked"]
            /\ clientHolder' = clientHolder
    /\ UNCHANGED <<clock, pc, req, resp, fetched, trace, bqueue, tjob,
                   clientPresent, accessors, pending, afterFail>>
    /\ UNCHANGED gateVars
    /\ UNCHANGED chanVars

\* client.as_mut().unwrap() and client.0.wait_skin_loaded(&params.skin_name)
WaitSkin(t) ==
    /\ UNCHANGED descVars
    /\ tpc[t] = "wait_skin"
    /\ clientPresent
    /\ accessors' = accessors \cup {t}
    /\ tpc' = [tpc EXCEPT ![t] = "render"]
    /\ UNCHANGED <<clock, pc, req, resp, fetched, trace, bqueue, tjob,
                   clientHolder, clientWaiters, clientPresent, pending, afterFail>>
    /\ UNCHANGED gateVars
    /\ UNCHANGED chanVars

\* client.0.render(params, sender) to its end, then the end of the closure:
\* the guard is dropped and the mutex passes to its oldest waiter; the task's
\* JoinHandle is completed and the thread is idle again.
Render(t) ==
    /\ UNCHANGED descVars
    /\ tpc[t] = "render"
    /\ LET j == tjob[t] IN
       \E e \in RenderEnds :
        LET out == e[1]
            n == e[2]
            cb0 == [sender |-> TRUE, chan |-> chan[j], sends |-> sends[j]]
            cb == IF out = "ok" THEN Callbacks(cb0, "ok", n)
                  ELSE IF out = "png_err" THEN Callbacks(cb0, "err", n)
                  ELSE IF out = "shot_panic"
                  THEN [cb0 EXCEPT !.chan = Send(cb0.chan, "closed")]
                  ELSE cb0
            w == NextHolder(clientWaiters)
        IN
        /\ chan' = [chan EXCEPT ![j] = cb.chan]
        /\ sends' = [sends EXCEPT ![j] = cb.sends]
        /\ join' = [join EXCEPT ![j] = IF Panics(out) THEN "panic" ELSE "ok"]
        /\ pending' = SelectSeq(pending, LAMBDA x : x # j)
        /\ tjob' = [tjob EXCEPT ![t] = 0]
        /\ IF ReleasesClient(out)
           THEN /\ clientHolder' = w
                /\ clientWaiters' = IF w = 0 THEN <<>> ELSE Tail(clientWaiters)
                /\ tpc' = [u \in Threads |->
                             IF u = t THEN "idle"
                             ELSE IF u = w THEN "wait_skin" ELSE tpc[u]]
           ELSE /\ tpc' = [tpc EXCEPT ![t] = "idle"]
                /\ UNCHANGED <<clientHolder, clientWaiters>>
    /\ accessors' = accessors \cup {t}
    /\ UNCHANGED <<clock, pc, req, resp, fetched, trace, bqueue, clientPresent,
                   afterFail>>
    /\ UNCHANGED gateVars

\* ------------------------------------------- the parameters of a request

\* a merge that does not look at how the profile request ended
MergeAlways(p, r) ==
    [p EXCEPT !.skin_name = r.skin.name,
              !.body = r.skin.color_body,
              !.feet = r.skin.color_feet]

\* the profile parsed: params.skin_name, params.body and params.feet are
\* overwritten with the fields of the Skin; `if let Ok(..)` twice, so any
\* failure leaves params as it was
Merge(p, r) ==
    IF r.status = "ok"
    THEN [p EXCEPT !.skin_name = r.skin.name,
                   !.body = r.skin.color_body,
                   !.feet = r.skin.color_feet]
    ELSE p

\* a render that clamps without looking for NaN and the infinities
SanitizeNone(f, d) == f

\* `if v.is_nan() || v.is_infinite() { v = d }`
Sanitize(f, d) == IF IsNan(f) \/ IsInfinite(f) THEN Num(d) ELSE f

\* f32::clamp(lo, hi): NaN stays NaN, an infinity goes to the bound
Clamp(f, lo, hi) ==
    IF IsNan(f) THEN f
    ELSE IF IsInfinite(f) THEN (IF f.v > 0 THEN Num(hi) ELSE Num(lo))
    ELSE IF f.v < lo THEN Num(lo)
    ELSE IF f.v > hi THEN Num(hi)
    ELSE f

\* f32::abs
Abs(n) == IF n < 0 THEN 0 - n ELSE n

\* the limits and defaults of Client::render, in units of 1/Scale
\* a render whose default zoom is 1.0
ZoomDefaultOne == Scale
\* unwrap_or(0.5)
ZoomDefault == Scale \div 2
ZoomNonFinite == Scale
ZoomMin == Scale \div 1000
ZoomMax == 20 * Scale
PosMax == 300000 * Scale
DirMax == Scale
\* abs() < 0.001
DirEpsilon == Scale \div 1000
HookMax == 10000 * Scale
\* 31536000000 ms, in units of TimeUnit
TimeMax == 31536000
\* 173.12, 688.96 and 1358.08, 24240.96
DefaultXCtf1 == 17312 * (Scale \div 100)
DefaultYCtf1 == 68896 * (Scale \div 100)
DefaultXOther == 135808 * (Scale \div 100)
DefaultYOther == 2424096 * (Scale \div 100)

\* a render that never forces dir_x
NearZeroDirNever(dx, dy) == FALSE

\* `dir_x.abs() < 0.001 && dir_y.abs() < 0.001`
NearZeroDir(dx, dy) == Abs(dx) < DirEpsilon /\ Abs(dy) < DirEpsilon

\* math::normalize on the vector (x, y), kept exact: the result is
\* (x, y) / sqrt(len2). The library returns the zero vector for a vector of
\* length zero.
Normalize(x, y) ==
    IF x = 0 /\ y = 0
    THEN [x |-> 0, y |-> 0, len2 |-> 1]
    ELSE [x |-> x, y |-> y, len2 |-> x * x + y * y]

\* the match on params.eyes..to_lowercase()
EyeOf(str) ==
    CASE str = "normal" -> "Normal"
      [] str = "angry" -> "Angry"
      [] str = "pain" -> "Pain"
      [] str = "happy" -> "Happy"
      [] str = "surprised" -> "Surprised"
      [] str = "blink" -> "Blink"
      [] OTHER -> "Normal"

\* the match on weapon.to_lowercase()
WeaponOf(str) ==
    CASE str = "gun" -> "Gun"
      [] str = "shotgun" -> "Shotgun"
      [] str = "grenade" -> "Grenade"
      [] str = "laser" -> "Laser"
      [] OTHER -> "Hammer"

\* EmoticonType::iter().find(|e| e_str.to_lowercase() == emoticon.to_lowercase())
EmoticonOf(str) ==
    LET m == {i \in 1..Len(EmoticonNames) :
                ToLower(EmoticonNames[i]) = ToLower(str)}
    IN IF m = {} THEN None
       ELSE Some(EmoticonNames[CHOOSE i \in m : \A k \in m : i <= k])

\* (c >> n) & 0xFF on an i32, with n = 0, 8, 16, 24 given as 2^n
Byte(c, pow) == (c \div pow) % 256

Original == [kind |-> "Original", hue |-> 0, s |-> 0, lightness |-> 0, a |-> 0]

\* a recolouring that keeps the lightness of the packed colour
LightnessUnfloored(l) == 2 * l

\* `darkest + hsl.lightness * (1.0 - darkest)` with darkest = 0.5 and
\* hsl.lightness = l / 255.0, in units of 1/510
Lightness(l) == 255 + l

\* a recolouring that passes the alpha byte on
ColorableWithAlpha(c) ==
    [kind |-> "Colorable",
     hue |-> Byte(c, 65536) * 360,
     s |-> Byte(c, 256),
     lightness |-> 255 + Byte(c, 1),
     a |-> Byte(c, 16777216)]

\* The recolouring of a packed colour: hue in units of 1/255 degree
\* (h * 360.0), saturation in units of 1/255, the lightness in units of
\* 1/510; a is 1.0.
Colorable(c) ==
    [kind |-> "Colorable",
     hue |-> Byte(c, 65536) * 360,
     s |-> Byte(c, 256),
     lightness |-> Lightness(Byte(c, 1)),
     a |-> 1]

\* a render that recolours when either colour is given
CustomColorEither(p) == IsSome(p.body) \/ IsSome(p.feet)

\* `let custom_color = params.body.is_some()`
CustomColor(p) == IsSome(p.body)

\* a wait that takes every name for a key
ResourceKeyOfAny(name) == Some(name)

\* `skin_name.try_into()` to a ResourceKey in wait_skin_loaded: the key, or
\* the failure of the conversion
ResourceKeyOf(name) == IF name \in KeyNames THEN Some(name) ELSE None

\* the longest name of a NetworkResourceKey<24>
RenderKeyLen == 24

\* `skin_name.as_str().try_into().ok()` to a NetworkResourceKey<24> in render
RenderKeyOf(name) ==
    IF name \in KeyNames /\ Len(name) <= RenderKeyLen THEN Some(name) ELSE None

\* skin_container.get_or_default_opt(key): the skin of the key, the
\* container's default skin if there is no key
GetOrDefaultOpt(key) ==
    IF IsSome(key) THEN [kind |-> "loaded", key |-> key[1]]
    ELSE [kind |-> "default", key |-> ""]

\* The locals of Client::render that the drawing is made with, from params.
RenderLocals(p) ==
    LET map_name == UnwrapOr(p.map_name, "ctf1")
        is_ctf1 == map_name = "ctf1"
        default_x == IF is_ctf1 THEN DefaultXCtf1 ELSE DefaultXOther
        default_y == IF is_ctf1 THEN DefaultYCtf1 ELSE DefaultYOther
        zoom == Clamp(Sanitize(UnwrapOr(p.zoom, Num(ZoomDefault)), ZoomNonFinite),
                      ZoomMin, ZoomMax)
        x == Clamp(Sanitize(UnwrapOr(p.x, Num(default_x)), 0), 0, PosMax)
        y == Clamp(Sanitize(UnwrapOr(p.y, Num(default_y)), 0), 0, PosMax)
        dir_x0 == Clamp(Sanitize(UnwrapOr(p.dir_x, Num(Scale)), 0), 0 - DirMax, DirMax)
        dir_y == Clamp(Sanitize(UnwrapOr(p.dir_y, Num(0)), 0), 0 - DirMax, DirMax)
        custom_color == CustomColor(p)
        color_body == UnwrapOr(p.body, 0)
        color_feet == UnwrapOr(p.feet, 0)
        dir_x == IF dir_x0.k = "num" /\ dir_y.k = "num"
                    /\ NearZeroDir(dir_x0.v, dir_y.v)
                 THEN Num(Scale) ELSE dir_x0
        hook_pos == IF IsSome(p.hook_x) /\ IsSome(p.hook_y)
                    THEN Some([x |-> Clamp(Sanitize(p.hook_x[1], 0), 0 - HookMax, HookMax),
                               y |-> Clamp(Sanitize(p.hook_y[1], 0), 0 - HookMax, HookMax)])
                    ELSE None
        t == UnwrapOr(p.time, 0)
    IN [skin_name |-> p.skin_name,
        skin |-> GetOrDefaultOpt(RenderKeyOf(p.skin_name)),
        map_name |-> map_name,
        zoom |-> zoom, x |-> x, y |-> y,
        dir_in |-> [x |-> dir_x, y |-> dir_y],
        dir |-> IF dir_x.k = "num" /\ dir_y.k = "num"
                THEN Normalize(dir_x.v, dir_y.v)
                ELSE [x |-> 0, y |-> 0, len2 |-> 0],
        hook_pos |-> hook_pos,
        tee_eyes |-> EyeOf(ToLower(UnwrapOr(p.eyes, "normal"))),
        weapon |-> IF IsSome(p.weapon) THEN Some(WeaponOf(ToLower(p.weapon[1]))) ELSE None,
        emoticon |-> IF IsSome(p.emoticon) THEN EmoticonOf(p.emoticon[1]) ELSE None,
        cur_time |-> IF t > TimeMax THEN TimeMax ELSE t,
        custom_color |-> custom_color,
        color_body |-> IF ~custom_color THEN Original ELSE Colorable(color_body),
        color_feet |-> IF ~custom_color THEN Original ELSE Colorable(color_feet),
        in_air |-> UnwrapOr(p.in_air, FALSE),
        got_air_jump |-> ~UnwrapOr(p.used_air_jump, FALSE)]

\* nothing drawn yet
NoDesc == RenderLocals(DefaultParams)

\* No request is followed on its way to the drawing: there are no parameters.
NoDescriptor ==
    /\ query = None
    /\ params = None
    /\ upstream = None
    /\ desc = None
    /\ ppc = "idle"
    /\ steps = <<>>

\* One request is followed from its query to the drawing.
InitParams ==
    /\ Started
    /\ pc = [h \in Reqs |-> "absent"]
    /\ trace = FALSE
    /\ query \in Inputs
    /\ params = query
    /\ upstream = NoFetch
    /\ desc = NoDesc
    /\ ppc = "handler"
    /\ steps = <<>>

\* the gate rejects the request: `return "Rate limited"`, nothing is drawn
Reject ==
    /\ ppc = "handler"
    /\ UsePlayerApi([api |-> UnwrapOr(params.use_player_api, FALSE)])
    /\ ppc' = "rate_limited"
    /\ UNCHANGED <<query, params, upstream, desc, steps>>
    /\ UNCHANGED serviceVars

\* the request passed the gate and has a player name: the profile is
\* requested and, if it arrives and parses, merged into params
Enrich ==
    /\ ppc = "handler"
    /\ UsePlayerApi([api |-> UnwrapOr(params.use_player_api, FALSE)])
    /\ WantsFetch([has_name |-> IsSome(params.player_name)])
    /\ \E r \in FetchResults :
        /\ upstream' = r
        /\ params' = Merge(params, r)
    /\ ppc' = "submit"
    /\ UNCHANGED <<query, desc, steps>>
    /\ UNCHANGED serviceVars

\* the request does not ask for the player api, or passed the gate without
\* a player name: params goes to the job as it is
NoEnrich ==
    /\ ppc = "handler"
    /\ ~(/\ UsePlayerApi([api |-> UnwrapOr(params.use_player_api, FALSE)])
         /\ WantsFetch([has_name |-> IsSome(params.player_name)]))
    /\ ppc' = "submit"
    /\ UNCHANGED <<query, params, upstream, desc, steps>>
    /\ UNCHANGED serviceVars

\* The job has the CLIENT guard and calls wait_skin_loaded: a skin_name
\* that is not a ResourceKey makes it return at once, any other makes it
\* call blocking_wait_loaded.
WaitSkinLoaded ==
    /\ ppc = "submit"
    /\ ppc' = IF IsSome(ResourceKeyOf(params.skin_name)) THEN "waiting"
              ELSE "loaded"
    /\ steps' = Append(steps, "wait_skin_loaded")
    /\ UNCHANGED <<query, params, upstream, desc>>
    /\ UNCHANGED serviceVars

\* the skin container has loaded the skin and blocking_wait_loaded returns
SkinLoaded ==
    /\ ppc = "waiting"
    /\ ppc' = "loaded"
    /\ steps' = Append(steps, "skin_loaded")
    /\ UNCHANGED <<query, params, upstream, desc>>
    /\ UNCHANGED serviceVars

\* the job runs Client::render(params, sender) up to the end of the drawing
Draw ==
    /\ ppc = "loaded"
    /\ desc' = RenderLocals(params)
    /\ ppc' = "drawn"
    /\ steps' = Append(steps, "draw")
    /\ UNCHANGED <<query, params, upstream>>
    /\ UNCHANGED serviceVars

\* a graphics library that encodes the frame when the screenshot is requested
DeliveredInRequest(call) == call = "do_screenshot"

\* The call of the graphics library in which the callback of a pending
\* screenshot is invoked.
DeliveredIn(call) == call = "check_pending_screenshot"

\* the steps of the job after a call of the graphics library: the call, and
\* the callback's send of the result png if the call invokes the callback
AfterCall(done, call, png) ==
    IF DeliveredIn(call) THEN Append(Append(done, call), png)
    ELSE Append(done, call)

\* the results the callback can be given: Ok(bytes) or Err
ScreenshotResults == {"send_ok", "send_err"}

\* graphics.do_screenshot(cb).unwrap()
DoScreenshot ==
    /\ ppc = "drawn"
    /\ \/ /\ ppc' = "shot"
          /\ \E png \in ScreenshotResults :
                steps' = AfterCall(steps, "do_screenshot", png)
       \/ /\ ppc' = "panic"
          /\ steps' = Append(steps, "do_screenshot_err")
    /\ UNCHANGED <<query, params, upstream, desc>>
    /\ UNCHANGED serviceVars

\* graphics.swap()
Swap ==
    /\ ppc = "shot"
    /\ ppc' = "swapped"
    /\ \E png \in ScreenshotResults : steps' = AfterCall(steps, "swap", png)
    /\ UNCHANGED <<query, params, upstream, desc>>
    /\ UNCHANGED serviceVars

\* graphics_backend.wait_idle().unwrap()
WaitIdle ==
    /\ ppc = "swapped"
    /\ \/ /\ ppc' = "device_idle"
          /\ \E png \in ScreenshotResults :
                steps' = AfterCall(steps, "wait_idle", png)
       \/ /\ ppc' = "panic"
          /\ steps' = Append(steps, "wait_idle_err")
    /\ UNCHANGED <<query, params, upstream, desc>>
    /\ UNCHANGED serviceVars

\* graphics.check_pending_screenshot(), then skin_container.update and the
\* end of render and of the closure
CheckPendingScreenshot ==
    /\ ppc = "device_idle"
    /\ ppc' = "rendered"
    /\ \E png \in ScreenshotResults :
        steps' = AfterCall(steps, "check_pending_screenshot", png)
    /\ UNCHANGED <<query, params, upstream, desc>>
    /\ UNCHANGED serviceVars

\* the job's sends so far
Sent(done) == SelectSeq(done, LAMBDA e : e \in ScreenshotResults)

\* The handler resumes after the job: `receiver.await.unwrap().unwrap()`
\* gives the bytes of the first value sent and they are answered as
\* image/png; a channel closed without a value, or an Err, panics the handler.
Answer ==
    /\ ppc = "rendered"
    /\ ppc' = IF Sent(steps) # <<>> /\ Head(Sent(steps)) = "send_ok" THEN "png"
              ELSE "panic"
    /\ UNCHANGED <<query, params, upstream, desc, steps>>
    /\ UNCHANGED serviceVars


\* ------------------------------------------------------ the specifications

\* the first n requests are still to arrive, the others never do
Awaited(n) == pc = [h \in Reqs |-> IF h <= n THEN "new" ELSE "absent"]

Init == Started /\ Awaited(NumReq) /\ trace = FALSE /\ NoDescriptor

InitGate == Started /\ Awaited(BurstReq) /\ trace = TRUE /\ NoDescriptor

HandlerStep ==
    \/ \E h \in Reqs : GateTest(h)
    \/ \E h \in Reqs : GateSet(h)
    \/ \E h \in Reqs : Fetch(h)
    \/ \E h \in Reqs : Submit(h)
    \/ \E h \in Reqs : Respond(h)
    \/ \E h \in Reqs : Abandon(h)

PoolStep ==
    \/ \E t \in Threads : Dequeue(t)
    \/ \E t \in Threads : LockClient(t)
    \/ \E t \in Threads : WaitSkin(t)
    \/ \E t \in Threads : Render(t)

Next ==
    \/ Tick
    \/ \E h \in Reqs : Arrive(h)
    \/ HandlerStep
    \/ PoolStep

\* the service, with any scheduling of the handlers and the pool threads
Spec == Init /\ [][Next]_vars

\* The part of the service that reads and writes PLAYERS: the handlers up to
\* the submission of their job, with the gate attempts recorded. The pool and
\* the rest of the handler touch neither PLAYERS nor the clock.
NextGate ==
    \/ Tick
    \/ \E h \in Reqs : Arrive(h)
    \/ \E h \in Reqs : GateTest(h)
    \/ \E h \in Reqs : GateSet(h)
    \/ \E h \in Reqs : Fetch(h)
    \/ \E h \in Reqs : Submit(h)

SpecGate == InitGate /\ [][NextGate]_vars

\* The service under fair scheduling: a handler that can take a step and a
\* pool thread that can take a step eventually do. Requests and the passing
\* of time are not forced.
Fairness ==
    /\ \A h \in Reqs :
        WF_vars(GateTest(h) \/ GateSet(h) \/ Fetch(h) \/ Submit(h) \/ Respond(h))
    /\ \A t \in Threads :
        WF_vars(Dequeue(t) \/ LockClient(t) \/ WaitSkin(t) \/ Render(t))

FairSpec == Spec /\ Fairness

\* Client::render ends without a failure: the screenshot is requested, the
\* device goes idle and the callback is given Ok(bytes)
RenderOk(t) ==
    /\ Render(t)
    /\ join'[tjob[t]] = "ok"
    /\ chan'[tjob[t]] = "ok"

InitBurst == Started /\ Awaited(BurstReq) /\ trace = FALSE /\ NoDescriptor

\* A burst of requests, all within the same millisecond, whose callers stay
\* and whose renders do not fail.
NextBurst ==
    \/ \E h \in Reqs : Arrive(h)
    \/ \E h \in Reqs : GateTest(h)
    \/ \E h \in Reqs : GateSet(h)
    \/ \E h \in Reqs : Fetch(h)
    \/ \E h \in Reqs : Submit(h)
    \/ \E h \in Reqs : Respond(h)
    \/ \E t \in Threads : Dequeue(t)
    \/ \E t \in Threads : LockClient(t)
    \/ \E t \in Threads : WaitSkin(t)
    \/ \E t \in Threads : RenderOk(t)

SpecBurst == InitBurst /\ [][NextBurst]_vars

\* the burst under fair scheduling, every skin load completing
FairSpecBurst == SpecBurst /\ Fairness

\* one request from its query to the drawing and to its answer
NextParams ==
    \/ Reject
    \/ Enrich
    \/ NoEnrich
    \/ WaitSkinLoaded
    \/ SkinLoaded
    \/ Draw
    \/ DoScreenshot
    \/ Swap
    \/ WaitIdle
    \/ CheckPendingScreenshot
    \/ Answer

SpecParams == InitParams /\ [][NextParams]_vars

\* ------------------------------------------------------------- the claims

\* the pool threads that are between obtaining the CLIENT guard and the end
\* of Client::render
InRenderer == {t \in Threads : tpc[t] \in {"wait_skin", "render"}}

\* job j holds or has held the Renderer
HasRenderer(j) == \E t \in InRenderer : tjob[t] = j

\* job j has been taken by a pool thread that has not obtained the guard yet
Taken(j) == \E t \in Threads : tjob[t] = j /\ tpc[t] \in {"lock", "blocked"}

\* C1: at most one job is inside the Renderer (between obtaining the CLIENT
\* guard and the end of Client::render, wait_skin_loaded included), and that
\* job is the holder of the guard.
C1_OneRenderAtATime ==
    /\ Cardinality(InRenderer) <= 1
    /\ \A t \in InRenderer : clientHolder = t

\* C1 witness: a job is rendering while a second job waits for the guard.
C1_Witness ==
    \E t, u \in Threads : tpc[t] = "render" /\ tpc[u] = "blocked"

C3_OneOwnerThread == Cardinality(accessors) = 1

C5_GuardOnlyForTestAndSet ==
    /\ \A h \in Reqs :
        pc[h] \in {"fetch", "submit", "await_join", "done"}
            => playersHolder # h
    /\ playersHolder # 0 => pc[playersHolder] = "gate_set"

\* C5 witness: a handler is suspended on the fetch while another handler is
\* at the gate and finds the guard free.
C5_Witness ==
    \E h, g \in Reqs :
        pc[h] = "fetch" /\ pc[g] = "gate" /\ playersHolder = 0

\* C6 as stated: only a request with use_player_api=true and a player name
\* reads or updates the timestamp or is answered "Rate limited".
C6_GateOnlyWithApiAndName ==
    \A h \in Reqs :
        (gated[h] \/ resp[h] = "rate_limited") => (req[h].api /\ req[h].has_name)

\* C7: a request that fails the gate is answered "Rate limited" in the same
\* step and is finished: it made no outbound fetch and has no channel, no
\* blocking task and no job in the pool; and a request that ran the gate and
\* finished without a render job was answered "Rate limited".
C7_RejectedAnsweredAtOnce ==
    \A h \in Reqs :
        /\ resp[h] = "rate_limited" =>
            /\ pc[h] = "done"
            /\ ~fetched[h]
            /\ chan[h] = "none" /\ join[h] = "none"
            /\ \A i \in 1..Len(pending) : pending[i] # h
            /\ \A t \in Threads : tjob[t] # h
        /\ (gated[h] /\ pc[h] = "done" /\ chan[h] = "none") => resp[h] = "rate_limited"

\* C7 witness: a request was rejected by the gate while the request that
\* passed before it has its render job in the pool.
C7_Witness ==
    \E h, g \in Reqs :
        resp[h] = "rate_limited" /\ gated[g] /\ pc[g] = "await_join"

\* C8 as stated: every job that Client::render has run sent exactly one value
\* on its channel.
C8_ExactlyOneSend ==
    \A h \in Reqs : join[h] \in {"ok", "panic"} => sends[h] = 1

\* C9 as stated: a failed job delivers an error value on its channel, the
\* job does not panic, and the handler answers with an error text instead of
\* panicking.
C9_FailureIsErrorResponse ==
    \A h \in Reqs :
        /\ join[h] # "panic"
        /\ resp[h] # "panic"
        /\ (Failed(h) /\ pc[h] = "done") => resp[h] = "error_text"

\* C10: a failing job does not stop the executor. The Client stays in CLIENT
\* and the guard is held only by a thread that is running a job, so the end
\* of a job, by return or by panic, frees the Renderer; and under fair
\* scheduling every job submitted after a failure is rendered.
C10_Released ==
    /\ clientPresent
    /\ clientHolder # 0 => tpc[clientHolder] \in {"wait_skin", "render"}
    /\ \A t \in Threads : tpc[t] = "blocked" => clientHolder # 0

C10_FailureDoesNotStopExecutor ==
    /\ []C10_Released
    /\ \A h \in Reqs :
        (afterFail[h] /\ join[h] = "pending") ~> (join[h] # "pending")

\* C10 witness: a job submitted after another job had failed has been
\* rendered and has delivered its image.
C10_Witness ==
    \E h \in Reqs : afterFail[h] /\ chan[h] = "ok" /\ resp[h] = "png"

\* job j is in the queue of the pool or on a pool thread
InPool(j) ==
    \/ \E i \in 1..Len(bqueue) : bqueue[i] = j
    \/ \E t \in Threads : tjob[t] = j

\* C11: a caller that abandons its request does not affect the executor. The
\* job of an abandoned request stays in the pool until it has run, a send to
\* the dropped receiver ends the job without a panic, the guard is held only
\* by a thread that is running a job, and under fair scheduling every job
\* that is unfinished when some caller is gone, the abandoned job included,
\* runs to its end.
C11_JobKept ==
    /\ \A h \in Reqs :
        /\ (pc[h] = "gone" /\ join[h] = "pending") => InPool(h)
        /\ (chan[h] = "rx_dropped" /\ sends[h] > 0) => join[h] = "ok"
    /\ clientHolder # 0 => tpc[clientHolder] \in {"wait_skin", "render"}

C11_AbandonDoesNotStopExecutor ==
    /\ []C11_JobKept
    /\ \A h \in Reqs :
        (join[h] = "pending" /\ \E g \in Reqs : pc[g] = "gone")
            ~> (join[h] # "pending")

\* C11 witness: the job of an abandoned request has run and its send was
\* discarded, and another request has been answered with its image.
C11_Witness ==
    \E h, g \in Reqs :
        /\ pc[h] = "gone" /\ chan[h] = "rx_dropped" /\ sends[h] = 1 /\ join[h] = "ok"
        /\ g > h /\ resp[g] = "png"
        /\ clientHolder = 0

EnrichedFields == {"skin_name", "body", "feet"}
OtherFields == DOMAIN DefaultParams \ EnrichedFields

\* C13: enrichment changes the parameters if and only if the profile request
\* succeeds and parses. Then skin_name, body and feet are the upstream
\* values, an absent upstream colour included; after a network or parse
\* failure every field is as in the query and the request goes on to the
\* drawing; the other fields are as in the query in every case, and the
\* drawing is made from the parameters as they then are.
C13_EnrichIffParsed ==
    /\ upstream.status = "ok" =>
        /\ params.skin_name = upstream.skin.name
        /\ params.body = upstream.skin.color_body
        /\ params.feet = upstream.skin.color_feet
    /\ upstream.status # "ok" => params = query
    /\ \A f \in OtherFields : params[f] = query[f]
    /\ upstream.status \in {"net_err", "parse_err"} =>
        /\ ppc \notin {"handler", "rate_limited"}
        /\ ppc = "submit" => ENABLED WaitSkinLoaded
        /\ ppc = "loaded" => ENABLED Draw
    /\ ppc = "drawn" => desc = RenderLocals(params)

\* C13 witness: a request that supplied a body colour was enriched with a
\* profile that has none, and was drawn.
C13_Witness ==
    /\ ppc = "drawn"
    /\ upstream.status = "ok"
    /\ IsSome(query.body) /\ upstream.skin.color_body = None
    /\ params.body = None
    /\ params.skin_name # query.skin_name
    /\ desc.color_body = Original

\* f is a finite number between lo and hi
InRange(f, lo, hi) == f.k = "num" /\ lo <= f.v /\ f.v <= hi
\* the Option holds NaN or an infinity
NonFinite(o) == IsSome(o) /\ (IsNan(o[1]) \/ IsInfinite(o[1]))

\* C14: whatever the query holds for a numeric parameter (nothing, NaN, an
\* infinity, a value below, in or above the range, a limit), the value the
\* drawing is made with is finite and within its range: zoom in
\* [0.001, 20], x and y in [0, 300000], dir_x and dir_y in [-1, 1], hook_x
\* and hook_y in [-10000, 10000], the time in [0, 31536000000] ms; and a
\* non-finite value counts as 0.0 (1.0 for zoom) before it is clamped.
C14_FiniteAndClamped ==
    ppc = "drawn" =>
        /\ InRange(desc.zoom, ZoomMin, ZoomMax)
        /\ InRange(desc.x, 0, PosMax)
        /\ InRange(desc.y, 0, PosMax)
        /\ InRange(desc.dir_in.x, 0 - DirMax, DirMax)
        /\ InRange(desc.dir_in.y, 0 - DirMax, DirMax)
        /\ IsSome(desc.hook_pos) =>
            /\ InRange(desc.hook_pos[1].x, 0 - HookMax, HookMax)
            /\ InRange(desc.hook_pos[1].y, 0 - HookMax, HookMax)
        /\ 0 <= desc.cur_time /\ desc.cur_time <= TimeMax
        /\ NonFinite(params.zoom) => desc.zoom = Num(Scale)
        /\ NonFinite(params.x) => desc.x = Num(0)
        /\ NonFinite(params.y) => desc.y = Num(0)
        /\ NonFinite(params.dir_y) => desc.dir_in.y = Num(0)
        /\ NonFinite(params.dir_x) => desc.dir_in.x \in {Num(0), Num(Scale)}
        /\ (IsSome(desc.hook_pos) /\ NonFinite(params.hook_x))
            => desc.hook_pos[1].x = Num(0)
        /\ (IsSome(desc.hook_pos) /\ NonFinite(params.hook_y))
            => desc.hook_pos[1].y = Num(0)

\* C14 witness: x = NaN and no y were drawn with x = 0.0 and the default y
\* of the map.
C14_Witness ==
    /\ ppc = "drawn"
    /\ query.x = Some(NaN) /\ query.y = None /\ query.map_name = None
    /\ desc.x = Num(0)
    /\ desc.y = Num(DefaultYCtf1)

\* C15: absent optional parameters take the documented defaults. With only
\* skin_name given the drawing is of map ctf1 at (173.12, 688.96), zoom 0.5,
\* direction (1, 0), original colours, no hook, no weapon, no emoticon, eyes
\* Normal, time 0; and each absent parameter takes its default whatever the
\* others are, the camera (1358.08, 24240.96) when map_name is given and is
\* not "ctf1". In units of 1/Scale: 346240, 1377920, 1000, 2716160, 48481920.
C15_Defaults ==
    ppc = "drawn" =>
        /\ params.map_name = None => desc.map_name = "ctf1"
        /\ params.x = None =>
            desc.x = Num(IF desc.map_name = "ctf1" THEN 346240 ELSE 2716160)
        /\ params.y = None =>
            desc.y = Num(IF desc.map_name = "ctf1" THEN 1377920 ELSE 48481920)
        /\ params.zoom = None => desc.zoom = Num(1000)
        /\ (params.dir_x = None /\ params.dir_y = None) =>
            /\ desc.dir_in = [x |-> Num(Scale), y |-> Num(0)]
            /\ desc.dir.x > 0 /\ desc.dir.y = 0 /\ desc.dir.x * desc.dir.x = desc.dir.len2
        /\ params.body = None =>
            desc.color_body = Original /\ desc.color_feet = Original
        /\ (params.hook_x = None \/ params.hook_y = None) => desc.hook_pos = None
        /\ params.weapon = None => desc.weapon = None
        /\ params.emoticon = None => desc.emoticon = None
        /\ params.eyes = None => desc.tee_eyes = "Normal"
        /\ params.time = None => desc.cur_time = 0

\* C15 witness: the query `skin_name=default` alone, drawn on ctf1 at
\* (173.12, 688.96) with zoom 0.5.
C15_Witness ==
    /\ ppc = "drawn"
    /\ query = DefaultParams
    /\ desc.map_name = "ctf1"
    /\ desc.x = Num(346240) /\ desc.y = Num(1377920)
    /\ desc.zoom = Num(1000)
    /\ desc.tee_eyes = "Normal"
    /\ desc.weapon = None /\ desc.emoticon = None /\ desc.hook_pos = None

\* the component of the direction in the query counts as 0.0 or is smaller
\* than 0.001 in magnitude
NearZero(o) ==
    IsSome(o) /\ (IsNan(o[1]) \/ IsInfinite(o[1]) \/ Abs(o[1].v) < 2)

\* the vector d = (x, y) / sqrt(len2) has length 1
IsUnit(d) == d.len2 > 0 /\ d.x * d.x + d.y * d.y = d.len2

\* C16: the direction is never of length zero. For every dir_x and dir_y in
\* the query (absent, NaN, infinite, out of range, near zero) the vector
\* given to normalize is not (0, 0) and the direction drawn is a unit vector;
\* when both components count as less than 0.001 in magnitude, dir_x is 1.0;
\* dir_x = dir_y = NaN gives the direction (1, 0).
C16_DirectionNeverZero ==
    ppc = "drawn" =>
        /\ desc.dir_in.x.k = "num" /\ desc.dir_in.y.k = "num"
        /\ desc.dir_in.x.v # 0 \/ desc.dir_in.y.v # 0
        /\ IsUnit(desc.dir)
        /\ (NearZero(params.dir_x) /\ (NearZero(params.dir_y) \/ params.dir_y = None))
            => desc.dir_in.x = Num(Scale)
        /\ (params.dir_x = Some(NaN) /\ params.dir_y = Some(NaN))
            => desc.dir = [x |-> Scale, y |-> 0, len2 |-> Scale * Scale]

\* C16 witness: dir_x = dir_y = NaN was drawn with the direction (1, 0).
C16_Witness ==
    /\ ppc = "drawn"
    /\ query.dir_x = Some(NaN) /\ query.dir_y = Some(NaN)
    /\ desc.dir_in = [x |-> Num(Scale), y |-> Num(0)]
    /\ IsUnit(desc.dir)

\* the names of WeaponType, of TeeEye and of the emoticons, in lower case
WeaponWords == {"hammer", "gun", "shotgun", "grenade", "laser"}
EyeWords == {"normal", "angry", "pain", "happy", "surprised", "blink"}
EmoticonWords == {ToLower(EmoticonNames[i]) : i \in 1..Len(EmoticonNames)}

\* the Option holds none of the words, in any case of letters
Unrecognized(o, words) == o = None \/ ToLower(o[1]) \notin words

\* C17 as stated: weapon and emoticon are matched without regard to case; an
\* unrecognized or absent weapon gives no weapon, an unrecognized or absent
\* emoticon gives no emoticon, and unrecognized or absent eyes give Normal.
C17_UnrecognizedIsAbsent ==
    ppc = "drawn" =>
        /\ Unrecognized(params.weapon, WeaponWords) => desc.weapon = None
        /\ ~Unrecognized(params.weapon, WeaponWords) => desc.weapon # None
        /\ Unrecognized(params.emoticon, EmoticonWords) => desc.emoticon = None
        /\ ~Unrecognized(params.emoticon, EmoticonWords) => desc.emoticon # None
        /\ Unrecognized(params.eyes, EyeWords) => desc.tee_eyes = "Normal"

\* C18: the custom colours are used if and only if a body colour is given;
\* body and feet are both Original or both Colorable; and with a body colour
\* and no feet colour the feet are recoloured from the packed value 0 (hue 0,
\* saturation 0, lightness 255/510).
C18_CustomColourIffBody ==
    ppc = "drawn" =>
        /\ desc.color_body.kind = "Colorable" <=> IsSome(params.body)
        /\ desc.color_body.kind = desc.color_feet.kind
        /\ desc.color_body.kind \in {"Original", "Colorable"}
        /\ (IsSome(params.body) /\ params.feet = None) =>
            desc.color_feet =
                [kind |-> "Colorable", hue |-> 0, s |-> 0, lightness |-> 255, a |-> 1]

\* C18 witness: a body colour without a feet colour was drawn with both
\* Colorable.
C18_Witness ==
    /\ ppc = "drawn"
    /\ params.body = Some(65280) /\ params.feet = None
    /\ desc.color_body.kind = "Colorable" /\ desc.color_body.s = 255
    /\ desc.color_feet.kind = "Colorable" /\ desc.color_feet.s = 0

\* C19 as stated: either colour enables the custom colours; a request with
\* a feet colour and no body colour is drawn with Colorable body and feet,
\* the body recoloured from 0, and only a request with neither colour is
\* drawn with the original colours.
C19_CustomColourIfEither ==
    ppc = "drawn" =>
        /\ desc.color_body.kind = "Colorable"
            <=> (IsSome(params.body) \/ IsSome(params.feet))
        /\ desc.color_feet.kind = "Colorable"
            <=> (IsSome(params.body) \/ IsSome(params.feet))
        /\ (params.body = None /\ IsSome(params.feet)) =>
            desc.color_body =
                [kind |-> "Colorable", hue |-> 0, s |-> 0, lightness |-> 255, a |-> 1]

\* the packed colours a part is recoloured from
PackedOf(o) == UnwrapOr(o, 0)

\* C20: the lightness given to the conversion is 0.5 + l * 0.5 with
\* l = (packed & 0xFF) / 255, that is (255 + b) / 510 for the lightness byte
\* b, and so between 0.5 and 1.0: for each of the 256 bytes under upper bits
\* that are zero, the greatest or the least of an i32, and for the colours
\* of every request drawn with custom colours.
C20_LightnessFloor ==
    /\ \A b \in 0..255 :
        \A upper \in {0, 8388607, 0 - 8388608} :
            LET c == Colorable(upper * 256 + b) IN
            /\ c.lightness = 255 + b
            /\ 255 <= c.lightness /\ c.lightness <= 510
    /\ (ppc = "drawn" /\ desc.custom_color) =>
        /\ desc.color_body.lightness = 255 + (PackedOf(params.body) % 256)
        /\ desc.color_feet.lightness = 255 + (PackedOf(params.feet) % 256)
        /\ desc.color_body.lightness \in 255..510
        /\ desc.color_feet.lightness \in 255..510

\* C20 witness: a body colour whose lightness byte is 0 (the least i32) and
\* a feet colour whose lightness byte is 255 were drawn with the lightness
\* 0.5 and 1.0.
C20_Witness ==
    /\ ppc = "drawn"
    /\ params.body = Some(MinI32) /\ params.feet = Some(0 - 1)
    /\ desc.color_body.lightness = 255
    /\ desc.color_feet.lightness = 510

\* the i32 with the bits 0..23 of c and the byte al as its bits 24..31
WithAlpha(c, al) ==
    IF al < 128 THEN al * 16777216 + (c % 16777216)
    ELSE (al - 256) * 16777216 + (c % 16777216)

\* C21: the recolouring does not depend on the alpha bits. For the body and
\* feet colours of every request drawn with custom colours, the same colour
\* with any other byte in bits 24..31, negative values included, gives the
\* same hue, saturation and lightness, from which r, g and b are computed,
\* and the alpha 1.0.
C21_AlphaIgnored ==
    (ppc = "drawn" /\ desc.custom_color) =>
        /\ desc.color_body.a = 1 /\ desc.color_feet.a = 1
        /\ \A al \in 0..255 :
            /\ Colorable(WithAlpha(PackedOf(params.body), al)) = desc.color_body
            /\ Colorable(WithAlpha(PackedOf(params.feet), al)) = desc.color_feet

\* C21 witness: a body colour that is the alpha byte alone (0xFF000000, a
\* negative i32) was drawn as the colour 0 is.
C21_Witness ==
    /\ ppc = "drawn"
    /\ params.body = Some(0 - 16777216)
    /\ desc.color_body = Colorable(0)
    /\ desc.color_body.a = 1

\* C22 as stated: hue, saturation and lightness are the bytes in bits
\* 16..23, 8..15 and 0..7 of the colour, over 255, and the hue in degrees,
\* byte * 360 / 255, is at least 0 and less than 360 for every hue byte.
\* The hue is in units of 1/255 degree.
C22_HueBelow360 ==
    (ppc = "drawn" /\ desc.custom_color) =>
        \A part \in {<<desc.color_body, PackedOf(params.body)>>,
                      <<desc.color_feet, PackedOf(params.feet)>>} :
            LET col == part[1]
                c == part[2]
            IN /\ col.hue = ((c \div 65536) % 256) * 360
               /\ col.s = (c \div 256) % 256
               /\ col.lightness = 255 + (c % 256)
               /\ 0 <= col.hue /\ col.hue < 360 * 255

\* C23 as stated: a request without skin_name is answered with the "missing
\* parameters" text and does nothing else (the timestamp is not read or set,
\* no profile is fetched, no job is submitted), and every request that is
\* answered is answered with image/png bytes or with one of the plain texts.
C23_OneResponsePngOrText ==
    \A h \in Reqs :
        /\ (pc[h] \notin {"absent", "new"} /\ ~req[h].has_params) =>
               /\ pc[h] = "done" /\ resp[h] = "missing"
               /\ ~gated[h] /\ ~fetched[h]
               /\ join[h] = "none" /\ chan[h] = "none"
               /\ ~InPool(h)
        /\ pc[h] = "done" => resp[h] \in {"png", "missing", "rate_limited"}

\* the job of the request has done step e
Did(e) == \E i \in 1..Len(steps) : steps[i] = e
\* a step of the render failed
RenderFailed == Did("do_screenshot_err") \/ Did("wait_idle_err") \/ Did("send_err")

\* C24: a skin_name that is not a resource key neither fails nor stalls the
\* request. Its job leaves wait_skin_loaded without waiting for a load, goes
\* on to the drawing, draws the container's default skin, never stands
\* still before its end, and the request is answered with the image unless a
\* step of the render itself fails.
C24_BadSkinNameIsServed ==
    (Did("wait_skin_loaded") /\ params.skin_name \notin KeyNames) =>
        /\ ppc # "waiting" /\ ~Did("skin_loaded")
        /\ ppc \notin {"png", "panic"} => ENABLED NextParams
        /\ Did("draw") => desc.skin.kind = "default"
        /\ ppc = "panic" => RenderFailed
        /\ (ppc \in {"rendered", "png"} /\ ~RenderFailed) => Did("send_ok")

\* C24 witness: a request whose skin_name is not a resource key was drawn
\* with the default skin without a wait for a load and answered with the
\* image.
C24_Witness ==
    /\ ppc = "png"
    /\ params.skin_name = BadSkinName
    /\ desc.skin.kind = "default"
    /\ steps = <<"wait_skin_loaded", "draw", "do_screenshot", "swap",
                 "wait_idle", "check_pending_screenshot", "send_ok">>

\* the place of the first e in the steps of the job, 0 if there is none
Pos(e) ==
    IF Did(e) THEN CHOOSE i \in 1..Len(steps) :
                      steps[i] = e /\ \A k \in 1..(i - 1) : steps[k] # e
    ELSE 0
\* the job did step a, and did it before it did step b
Before(a, b) == Did(a) /\ Pos(a) < Pos(b)

\* C25: the steps of a job happen in a fixed order. The wait for the skin
\* is over before the drawing (for a skin_name that is a resource key, the
\* load has completed), the drawing is over before the screenshot is
\* requested, and a result is sent on the channel only after the swap and
\* after the device has gone idle.
C25_StepsInOrder ==
    /\ Did("draw") =>
        /\ Before("wait_skin_loaded", "draw")
        /\ params.skin_name \in KeyNames => Before("skin_loaded", "draw")
    /\ \A shot \in {"do_screenshot", "do_screenshot_err"} :
        Did(shot) => Before("draw", shot)
    /\ \A png \in ScreenshotResults :
        Did(png) => Before("do_screenshot", png) /\ Before("swap", png)
                        /\ Before("wait_idle", png)

\* C25 witness: a job waited for its skin, drew, requested the screenshot,
\* swapped, waited for the device and only then sent the image.
C25_Witness ==
    /\ ppc = "png"
    /\ steps = <<"wait_skin_loaded", "skin_loaded", "draw", "do_screenshot",
                 "swap", "wait_idle", "check_pending_screenshot", "send_ok">>

\* the attempts before the j-th that passed, and the last of them
PassesBefore(j) == {i \in 1..(j - 1) : attempts[i].pass}
LastPassBefore(j) ==
    CHOOSE i \in PassesBefore(j) : \A k \in PassesBefore(j) : k <= i
\* the attempts that have stored their time
Stores == {i \in 1..Len(attempts) : attempts[i].set # NoTime}

\* C26: the timestamp changes only when an attempt passes. It is the time
\* stored by the last attempt that passed (before the first store, the
\* initial value); an attempt passes exactly if it is made more than 500 ms
\* after the time stored by the last pass before it, however many attempts
\* were rejected in between, so a rejected attempt neither changes the
\* timestamp nor extends the window; and the stored times never decrease.
C26_TimestampOnlyOnPass ==
    /\ \A j \in 1..Len(attempts) :
        IF PassesBefore(j) = {} THEN attempts[j].pass
        ELSE LET t == attempts[LastPassBefore(j)].set
             IN /\ t # NoTime
                /\ attempts[j].pass <=> (attempts[j].at - t > Window)
    /\ IF Stores = {} THEN players < 0
       ELSE \E i \in Stores :
                /\ \A k \in Stores : k <= i
                /\ players = attempts[i].set
    /\ \A i, j \in Stores : i < j => attempts[i].set <= attempts[j].set

\* C26 witness: an attempt passed, the next was rejected, and the one after
\* it, made more than 500 ms after the time the first stored, passed and
\* stored its own time.
C26_Witness ==
    /\ Len(attempts) = 3
    /\ attempts[1].pass /\ ~attempts[2].pass /\ attempts[3].pass
    /\ attempts[3].at - attempts[1].set > Window
    /\ players = attempts[3].set
    /\ players > attempts[1].set

\* C27: no deadlock and no starvation. Under fair scheduling, with every
\* skin load completing and no render failing, every submitted job comes to
\* hold the Renderer and its request is answered with the image, also when
\* there are more requests than worker threads and than pool threads.
C27_EveryJobServed ==
    \A h \in Reqs :
        /\ (join[h] = "pending") ~> HasRenderer(h)
        /\ (join[h] = "pending") ~> (resp[h] = "png")

\* C27 witness: more jobs than pool threads are submitted and unfinished:
\* one holds the Renderer, one waits for the guard and one is still queued.
C27_Witness ==
    /\ Cardinality({h \in Reqs : join[h] = "pending"}) > MaxBlockingThreads
    /\ bqueue # <<>>
    /\ clientHolder # 0 /\ clientWaiters # <<>>

\* the jobs that have been submitted and are not the job of thread t
LaterJobs(t) == {j \in Reqs : join[j] = "pending" /\ j # tjob[t]}

\* C28: the wait for the skin happens under the CLIENT guard. While a job
\* waits for its skin its thread holds the guard, no other thread waits for
\* a skin or renders, and every other unfinished job is queued or taken and
\* not served; and for as long as the wait lasts, no other job enters the
\* Renderer or ends, so a load that never completes keeps every later job
\* from being served.
C28_WaitUnderTheGuard ==
    /\ [](\A t \in Threads : tpc[t] = "wait_skin" =>
            /\ clientHolder = t
            /\ InRenderer = {t}
            /\ \A j \in LaterJobs(t) : ~HasRenderer(j))
    /\ [][\A t \in Threads :
            (tpc[t] = "wait_skin" /\ tpc'[t] = "wait_skin") =>
                /\ clientHolder' = t
                /\ \A j \in LaterJobs(t) :
                        join'[j] = "pending" /\ resp'[j] = "none"]_vars

\* C28 witness: a job waits for its skin while the other pool thread, with
\* a later job, is blocked on the guard.
C28_Witness ==
    \E t, u \in Threads :
        /\ tpc[t] = "wait_skin" /\ tpc[u] = "blocked"
        /\ tjob[u] \in LaterJobs(t)
        /\ tjob[t] < tjob[u]

====
